---- MODULE Spec2Model ----
(***************************************************************************)
(* Model of quantum_echo.py: the single-qubit echo circuit U, V, U^dagger, *)
(* its state-vector evaluation, and the script-level sweep and plot.       *)
(*                                                                         *)
(* Angles.  A finite angle is an integer n standing for n * pi/6, so that  *)
(* the half angle every gate matrix uses is n * pi/12 and all matrix       *)
(* entries lie in the ring Z[zeta]/2^e with zeta = exp(i*pi/12).  The      *)
(* arithmetic is exact; IEEE rounding is not represented.  theta ranges    *)
(* over even n (multiples of pi/3) so that theta/2 stays on the grid.      *)
(* The non-finite floats NaN and +Infinity are angles of their own.        *)
(***************************************************************************)
EXTENDS Integers, Sequences, FiniteSets, TLC

\* ---------------------------------------------------------------- bounds
MaxLen == 2        \* longest delta sequence swept
MaxThetaK == 2     \* theta ranges over 0, pi/3, ..., MaxThetaK * pi/3
MaxDeltaK == 4     \* delta ranges over 0, pi/6, ..., MaxDeltaK * pi/6

\* ---------------------------------------------------------------- angles
Fin(n) == [k |-> "fin", n |-> n]
NaN == [k |-> "nan", n |-> 0]
Inf == [k |-> "inf", n |-> 1]

IsFinite(a) == a.k = "fin"

\* Python's a / 2 (line 18, 19): exact halving; NaN/2 = NaN, Inf/2 = Inf
Half(a) == IF a.k = "fin" THEN Fin(a.n \div 2) ELSE a

\* Python's -a, as used by the inverse of a rotation gate
Neg(a) == IF a.k = "nan" THEN a ELSE [k |-> a.k, n |-> 0 - a.n]

\* The inputs of the model.  The script's theta = pi/3 is Fin(2); of its 50
\* deltas linspace(0, pi, 50) only the end points lie on the grid, so sweeps
\* run over every sequence of at most MaxLen grid deltas instead.
ThetaSet == {Fin(2 * m) : m \in 0..MaxThetaK} \cup {NaN, Inf}
DeltaSet == {Fin(n) : n \in 0..MaxDeltaK} \cup {NaN, Inf}

\* ------------------------------------------------- the ring Z[zeta_24]
\* An element is <<c0,...,c7>> = sum c_j zeta^j, zeta^8 = zeta^4 - 1.
ZZero == <<0, 0, 0, 0, 0, 0, 0, 0>>
ZOne == <<1, 0, 0, 0, 0, 0, 0, 0>>

ZAdd(a, b) == [j \in 1..8 |-> a[j] + b[j]]
ZNeg(a) == [j \in 1..8 |-> 0 - a[j]]
ZSub(a, b) == ZAdd(a, ZNeg(b))

\* a * zeta
ZShift(a) ==
  [j \in 1..8 |-> IF j = 1 THEN 0 - a[8]
                  ELSE IF j = 5 THEN a[4] + a[8]
                  ELSE a[j - 1]]

RECURSIVE ZShiftN(_, _)
ZShiftN(a, m) == IF m = 0 THEN a ELSE ZShiftN(ZShift(a), m - 1)

\* a * zeta^n for any integer n (zeta^12 = -1, zeta^24 = 1)
ZTimesPow(a, n) ==
  LET m == n % 24
  IN  IF m >= 12 THEN ZShiftN(ZNeg(a), m - 12) ELSE ZShiftN(a, m)

\* ------------------------------------------------ the real field basis
\* A real is <<a,b,c,d>> = a + b*sqrt2 + c*sqrt3 + d*sqrt6 (over a power of 2).
RAdd(x, y) == [j \in 1..4 |-> x[j] + y[j]]
RScale(s, x) == [j \in 1..4 |-> s * x[j]]
RMul(x, y) ==
  << x[1]*y[1] + 2*x[2]*y[2] + 3*x[3]*y[3] + 6*x[4]*y[4],
     x[1]*y[2] + x[2]*y[1] + 3*(x[3]*y[4] + x[4]*y[3]),
     x[1]*y[3] + x[3]*y[1] + 2*(x[2]*y[4] + x[4]*y[2]),
     x[1]*y[4] + x[4]*y[1] + x[2]*y[3] + x[3]*y[2] >>

\* 4*cos(j*pi/12) and 4*sin(j*pi/12), j = 0..7
Cos4 == << <<4,0,0,0>>, <<0,1,0,1>>, <<0,0,2,0>>, <<0,2,0,0>>,
           <<2,0,0,0>>, <<0,-1,0,1>>, <<0,0,0,0>>, <<0,1,0,-1>> >>
Sin4 == << <<0,0,0,0>>, <<0,-1,0,1>>, <<2,0,0,0>>, <<0,2,0,0>>,
           <<0,0,2,0>>, <<0,1,0,1>>, <<4,0,0,0>>, <<0,1,0,1>> >>

RECURSIVE RSum(_, _, _)
RSum(z, tab, j) ==
  IF j = 0 THEN <<0, 0, 0, 0>>
  ELSE RAdd(RScale(z[j], tab[j]), RSum(z, tab, j - 1))

\* 4 * real part and 4 * imaginary part of a ring element
Re4(z) == RSum(z, Cos4, 8)
Im4(z) == RSum(z, Sin4, 8)

\* --------------------------------------------------------- amplitudes
\* The value returned by echo_amplitude: (num[1] + num[2]*sqrt2 +
\* num[3]*sqrt3 + num[4]*sqrt6) / den in lowest terms, or the float NaN.
AmpNaN == [k |-> "nan", num |-> <<0, 0, 0, 0>>, den |-> 1]

RECURSIVE Pow2(_)
Pow2(e) == IF e = 0 THEN 1 ELSE 2 * Pow2(e - 1)

RECURSIVE Reduce(_, _)
Reduce(num, den) ==
  IF den > 1 /\ \A j \in 1..4 : num[j] % 2 = 0
  THEN Reduce([j \in 1..4 |-> num[j] \div 2], den \div 2)
  ELSE [k |-> "fin", num |-> num, den |-> den]

AmpOne == [k |-> "fin", num |-> <<1, 0, 0, 0>>, den |-> 1]

\* ------------------------------------------------------------- circuits
\* One instruction of a QuantumCircuit: a rotation gate and its angle.
Gate(name, param) == [name |-> name, param |-> param]

\* The locals of one call of echo_amplitude / build_echo_circuit, as the
\* objects the names are bound to.  U, V, U_dagger are gate sequences; qc is
\* the sequence of appended blocks; sv is the state vector
\* (v[1], v[2]) / 2^e, or all-NaN.
Ket0 == [nan |-> FALSE, e |-> 0, v |-> <<ZOne, ZZero>>]
SvNaN == [nan |-> TRUE, e |-> 0, v |-> <<ZZero, ZZero>>]
NoLocals == [U |-> <<>>, V |-> <<>>, U_dagger |-> <<>>, qc |-> <<>>, sv |-> Ket0]

\* Mutant: the name keeps the circuit object of the previous call
QuantumCircuitReused(s, name) == s

\* QuantumCircuit(1): the name is bound to a new, empty circuit
QuantumCircuit(s, name) == [s EXCEPT ![name] = <<>>]

\* qc.rx(angle, 0), qc.rz(angle, 0): append one gate to the circuit
rx(s, name, angle) == [s EXCEPT ![name] = Append(@, Gate("rx", angle))]
rz(s, name, angle) == [s EXCEPT ![name] = Append(@, Gate("rz", angle))]

\* Mutant: the last two rotations of U exchanged
forward_circuit_swapped(s, dst, th) ==
  rz(rx(rx(QuantumCircuit(s, dst), dst, th), dst, Half(th)), dst, Half(th))

\* forward_circuit(theta), its result bound to the name dst
forward_circuit(s, dst, th) ==
  rx(rz(rx(QuantumCircuit(s, dst), dst, th), dst, Half(th)), dst, Half(th))

\* perturbation(delta), its result bound to the name dst
perturbation(s, dst, delta) == rz(QuantumCircuit(s, dst), dst, delta)

\* Mutant: the angle is not negated
InverseGateSameAngle(g) == g

\* The inverse of one rotation gate: the same axis, the negated angle
InverseGate(g) == Gate(g.name, Neg(g.param))

\* Mutant: the gates are inverted but not reversed
inverse_unreversed(s, src, dst) ==
  [s EXCEPT ![dst] = [j \in 1..Len(s[src]) |->
                        Gate(s[src][j].name, Neg(s[src][j].param))]]

\* Mutant: the circuit is inverted in place and returned
inverse_inplace(s, src, dst) ==
  LET inv == [j \in 1..Len(s[src]) |->
                Gate(s[src][Len(s[src]) + 1 - j].name,
                     Neg(s[src][Len(s[src]) + 1 - j].param))]
  IN  [s EXCEPT ![src] = inv, ![dst] = inv]

\* U.inverse(): a new circuit, the inverted gates in reversed order; the
\* circuit it is called on is left as it is
inverse(s, src, dst) ==
  [s EXCEPT ![dst] = [j \in 1..Len(s[src]) |->
                        InverseGate(s[src][Len(s[src]) + 1 - j])]]

\* qc.append(src, [0]): the circuit is converted to an instruction (a copy)
\* and added as one block at the end
append(s, dst, src) == [s EXCEPT ![dst] = Append(@, s[src])]

build_echo_circuit(s, th, delta) ==
  LET s1 == forward_circuit(s, "U", th)
      s2 == perturbation(s1, "V", delta)
      s3 == inverse(s2, "U", "U_dagger")
      s4 == QuantumCircuit(s3, "qc")
      s5 == append(s4, "qc", "U")
      s6 == append(s5, "qc", "V")
  IN  append(s6, "qc", "U_dagger")

\* ------------------------------------------------------ state evolution
RECURSIVE Flatten(_)
Flatten(blocks) ==
  IF blocks = <<>> THEN <<>> ELSE Head(blocks) \o Flatten(Tail(blocks))

\* One gate applied to a state vector.  With h = n*pi/12 the half angle and
\* z = zeta^n:  RX = [[cos h, -i sin h], [-i sin h, cos h]]
\*                 = [[z + 1/z, -(z - 1/z)], [-(z - 1/z), z + 1/z]] / 2,
\*              RZ = diag(1/z, z).
\* A non-finite angle gives cos/sin/exp = NaN and so an all-NaN vector.
ApplyGate(st, g) ==
  IF st.nan \/ ~IsFinite(g.param) THEN SvNaN
  ELSE LET n == g.param.n
           c(x) == ZAdd(ZTimesPow(x, n), ZTimesPow(x, 0 - n))
           ms(x) == ZSub(ZTimesPow(x, 0 - n), ZTimesPow(x, n))
       IN  IF g.name = "rx"
           THEN [nan |-> FALSE, e |-> st.e + 1,
                 v |-> << ZAdd(c(st.v[1]), ms(st.v[2])),
                          ZAdd(ms(st.v[1]), c(st.v[2])) >>]
           ELSE [nan |-> FALSE, e |-> st.e,
                 v |-> << ZTimesPow(st.v[1], 0 - n), ZTimesPow(st.v[2], n) >>]

RECURSIVE Evolve(_, _)
Evolve(st, gates) ==
  IF gates = <<>> THEN st ELSE Evolve(ApplyGate(st, Head(gates)), Tail(gates))

\* Statevector.from_instruction(qc): |0> evolved through the instructions of
\* qc in the order they were appended, blocks expanded to their gates
from_instruction(qc) == Evolve(Ket0, Flatten(qc))

\* np.abs(sv.data[0])**2
AbsSquared(st) ==
  IF st.nan THEN AmpNaN
  ELSE LET re == Re4(st.v[1])
           im == Im4(st.v[1])
       IN  Reduce(RAdd(RMul(re, re), RMul(im, im)), 16 * Pow2(2 * st.e))

\* Whether building a gate matrix raises: the math library of the linear
\* algebra backend either raises a domain error for an infinite angle
\* (strict = TRUE) or returns NaN
Raises(strict, qc) ==
  strict /\ \E j \in 1..Len(Flatten(qc)) : Flatten(qc)[j].param.k = "inf"

\* Whether the call echo_amplitude(theta, delta) raises
WillRaise(s, strict, th, delta) ==
  Raises(strict, build_echo_circuit(s, th, delta).qc)

\* echo_amplitude(theta, delta) called with the locals s of the previous
\* call still in memory: the new locals, whether the call raised, and the
\* value returned
echo_amplitude(s, strict, th, delta) ==
  LET s1 == build_echo_circuit(s, th, delta)
  IN  IF Raises(strict, s1.qc)
      THEN [store |-> s1, raised |-> TRUE, amp |-> AmpNaN]
      ELSE LET s2 == [s1 EXCEPT !.sv = from_instruction(s1.qc)]
           IN  [store |-> s2, raised |-> FALSE, amp |-> AbsSquared(s2.sv)]

\* ---------------------------------------------------------------- state
VARIABLES
  theta,         \* module-level theta (line 66)
  deltas,        \* module-level deltas (line 67)
  echoes,        \* the list the comprehension of line 68 is building
  frame,         \* the locals of the latest echo_amplitude call
  domainErrors,  \* the backend raises on an infinite angle
  plots,         \* the arguments of each plt.plot call so far
  pc             \* "sweep", "done" (plot shown) or "aborted" (exception)

vars == <<theta, deltas, echoes, frame, domainErrors, plots, pc>>

RECURSIVE SeqsUpTo(_, _)
SeqsUpTo(S, n) ==
  IF n = 0 THEN {<<>>}
  ELSE LET shorter == SeqsUpTo(S, n - 1)
       IN  shorter \cup {Append(q, x) : q \in shorter, x \in S}

Init ==
  /\ theta \in ThetaSet
  /\ deltas \in SeqsUpTo(DeltaSet, MaxLen)
  /\ echoes = <<>>
  /\ frame = NoLocals
  /\ domainErrors \in BOOLEAN
  /\ plots = <<>>
  /\ pc = "sweep"

\* Mutant: the amplitude is put at the front of the list
EvalOkPrepend ==
  /\ pc = "sweep"
  /\ Len(echoes) < Len(deltas)
  /\ ~WillRaise(frame, domainErrors, theta, deltas[Len(echoes) + 1])
  /\ LET r == echo_amplitude(frame, domainErrors, theta, deltas[Len(echoes) + 1])
     IN  /\ echoes' = <<r.amp>> \o echoes
         /\ frame' = r.store
  /\ UNCHANGED <<theta, deltas, domainErrors, plots, pc>>

\* One iteration of [echo_amplitude(theta, d) for d in deltas] that returns
EvalOk ==
  /\ pc = "sweep"
  /\ Len(echoes) < Len(deltas)
  /\ ~WillRaise(frame, domainErrors, theta, deltas[Len(echoes) + 1])
  /\ LET r == echo_amplitude(frame, domainErrors, theta, deltas[Len(echoes) + 1])
     IN  /\ echoes' = Append(echoes, r.amp)
         /\ frame' = r.store
  /\ UNCHANGED <<theta, deltas, domainErrors, plots, pc>>

\* Mutant: the exception is swallowed and 0 recorded for the delta
EvalRaiseSwallowed ==
  /\ pc = "sweep"
  /\ Len(echoes) < Len(deltas)
  /\ WillRaise(frame, domainErrors, theta, deltas[Len(echoes) + 1])
  /\ frame' = echo_amplitude(frame, domainErrors, theta, deltas[Len(echoes) + 1]).store
  /\ echoes' = Append(echoes, [k |-> "fin", num |-> <<0, 0, 0, 0>>, den |-> 1])
  /\ UNCHANGED <<theta, deltas, domainErrors, plots, pc>>

\* One iteration that raises: the exception is not caught, the script ends
EvalRaise ==
  /\ pc = "sweep"
  /\ Len(echoes) < Len(deltas)
  /\ WillRaise(frame, domainErrors, theta, deltas[Len(echoes) + 1])
  /\ frame' = echo_amplitude(frame, domainErrors, theta, deltas[Len(echoes) + 1]).store
  /\ pc' = "aborted"
  /\ UNCHANGED <<theta, deltas, echoes, domainErrors, plots>>

\* Mutant: the plot does not wait for the comprehension to finish
PlotEarly ==
  /\ pc = "sweep"
  /\ plots' = Append(plots, [x |-> deltas, y |-> echoes])
  /\ pc' = "done"
  /\ UNCHANGED <<theta, deltas, echoes, frame, domainErrors>>

\* plt.figure ... plt.plot(deltas, echoes) ... plt.show(), after the
\* comprehension has finished
Plot ==
  /\ pc = "sweep"
  /\ Len(echoes) = Len(deltas)
  /\ plots' = Append(plots, [x |-> deltas, y |-> echoes])
  /\ pc' = "done"
  /\ UNCHANGED <<theta, deltas, echoes, frame, domainErrors>>

Next == EvalOk \/ EvalRaise \/ Plot

Spec == Init /\ [][Next]_vars

\* ------------------------------------------- reference linear algebra
\* What the claims compare the program's results with: general products in
\* the ring, gate matrices and their ordered product.
ZScale(c, a) == [j \in 1..8 |-> c * a[j]]

RECURSIVE ZMulTo(_, _, _)
ZMulTo(a, b, j) ==
  IF j = 0 THEN ZZero
  ELSE ZAdd(ZScale(b[j], ZTimesPow(a, j - 1)), ZMulTo(a, b, j - 1))

ZMul(a, b) == ZMulTo(a, b, 8)

RECURSIVE ZConjTo(_, _)
ZConjTo(a, j) ==
  IF j = 0 THEN ZZero
  ELSE ZAdd(ZScale(a[j], ZTimesPow(ZOne, 1 - j)), ZConjTo(a, j - 1))

\* complex conjugate: zeta -> 1/zeta
ZConj(a) == ZConjTo(a, 8)

\* A 2x2 matrix m / 2^e
Identity == [e |-> 0, m |-> << <<ZOne, ZZero>>, <<ZZero, ZOne>> >>]

GateMatrix(g) ==
  LET n == g.param.n
      z == ZTimesPow(ZOne, n)
      zi == ZTimesPow(ZOne, 0 - n)
  IN  IF g.name = "rx"
      THEN [e |-> 1, m |-> << <<ZAdd(z, zi), ZSub(zi, z)>>,
                              <<ZSub(zi, z), ZAdd(z, zi)>> >>]
      ELSE [e |-> 0, m |-> << <<zi, ZZero>>, <<ZZero, z>> >>]

MatMul(A, B) ==
  [e |-> A.e + B.e,
   m |-> [r \in 1..2 |-> [c \in 1..2 |->
            ZAdd(ZMul(A.m[r][1], B.m[1][c]), ZMul(A.m[r][2], B.m[2][c]))]]]

ConjTranspose(A) ==
  [e |-> A.e, m |-> [r \in 1..2 |-> [c \in 1..2 |-> ZConj(A.m[c][r])]]]

\* The net matrix of a gate sequence: the first gate is the rightmost factor
RECURSIVE NetMatrix(_)
NetMatrix(gates) ==
  IF gates = <<>> THEN Identity
  ELSE MatMul(NetMatrix(Tail(gates)), GateMatrix(Head(gates)))

AllFinite(gates) == \A j \in 1..Len(gates) : IsFinite(gates[j].param)

\* Rigorous sign test of a + b*sqrt2 + c*sqrt3 + d*sqrt6 from integer
\* bounds of the square roots times 10^5
RootLo == <<100000, 141421, 173205, 244948>>
RootHi == <<100000, 141422, 173206, 244949>>
LowerBound(x) ==
  LET t(j) == IF x[j] >= 0 THEN x[j] * RootLo[j] ELSE x[j] * RootHi[j]
  IN  t(1) + t(2) + t(3) + t(4)
IsNonNegative(x) == x = <<0, 0, 0, 0>> \/ LowerBound(x) > 0

InUnitInterval(a) ==
  /\ a.k = "fin"
  /\ IsNonNegative(a.num)
  /\ IsNonNegative([j \in 1..4 |-> (IF j = 1 THEN a.den ELSE 0) - a.num[j]])

\* The call made from a fresh interpreter state, for every input of the model
Fresh == [t \in ThetaSet, d \in DeltaSet |-> echo_amplitude(NoLocals, FALSE, t, d)]

\* Some call of echo_amplitude has been made, and the delta of the latest one
Called == Len(echoes) > 0 \/ pc = "aborted"
LastDelta == IF pc = "aborted" THEN deltas[Len(echoes) + 1] ELSE deltas[Len(echoes)]

\* The gate sequences the source text spells out
ForwardGates(th) == <<Gate("rx", th), Gate("rz", Half(th)), Gate("rx", Half(th))>>
InverseGates(th) ==
  <<Gate("rx", Neg(Half(th))), Gate("rz", Neg(Half(th))), Gate("rx", Neg(th))>>

\* The net matrices of the circuits the source text spells out, for every
\* finite input of the model
FiniteThetas == {t \in ThetaSet : IsFinite(t)}
FiniteDeltas == {d \in DeltaSet : IsFinite(d)}
ForwardNet == [t \in FiniteThetas |-> NetMatrix(ForwardGates(t))]
InverseNet == [t \in FiniteThetas |-> NetMatrix(InverseGates(t))]
EchoNet ==
  [t \in FiniteThetas, d \in FiniteDeltas |->
     NetMatrix(ForwardGates(t) \o <<Gate("rz", d)>> \o InverseGates(t))]

\* ---------------------------------------------------------------- claims

\* C1: with no perturbation the echo fully returns: for every finite theta,
\* every amplitude the sweep computed for delta = 0 is exactly 1.
C1_NoPerturbationIdentity ==
  \A i \in 1..Len(echoes) :
    (IsFinite(theta) /\ deltas[i] = Fin(0)) => echoes[i] = AmpOne

C1_Witness ==
  /\ theta = Fin(2)
  /\ Len(echoes) = 2
  /\ deltas = <<Fin(3), Fin(0)>>
  /\ echoes[2] = AmpOne
  /\ echoes[1] # AmpOne

\* C2: after a call the echo circuit holds exactly three blocks, in
\* application order U(theta) = X(theta), Z(theta/2), X(theta/2), then
\* V(delta) = Z(delta), then the inverse of U; and the state vector computed
\* from it is the first column of the matrix product whose rightmost factor
\* is the gate applied first.
C2_EchoCircuitOrder ==
  Called =>
    /\ frame.qc = <<ForwardGates(theta), <<Gate("rz", LastDelta)>>,
                    InverseGates(theta)>>
    /\ (pc # "aborted" /\ IsFinite(theta) /\ IsFinite(LastDelta)) =>
         LET N == EchoNet[theta, LastDelta]
         IN  frame.sv = [nan |-> FALSE, e |-> N.e, v |-> <<N.m[1][1], N.m[2][1]>>]

C2_Witness ==
  /\ theta = Fin(2)
  /\ Len(echoes) = 1
  /\ deltas[1] = Fin(3)
  /\ frame.qc[2] = <<Gate("rz", Fin(3))>>
  /\ frame.sv.e = 4
  /\ frame.sv.v[2] # ZZero

\* C3: the sweep keeps input order: at every moment the i-th amplitude
\* computed is the amplitude of the i-th delta, nothing is dropped,
\* duplicated or reordered, and the finished sweep has one amplitude per
\* delta.
C3_SweepOrdering ==
  /\ Len(echoes) <= Len(deltas)
  /\ \A i \in 1..Len(echoes) : echoes[i] = Fresh[theta, deltas[i]].amp
  /\ pc = "done" => /\ Len(echoes) = Len(deltas)
                    /\ plots = <<[x |-> deltas, y |-> echoes]>>

C3_Witness ==
  /\ pc = "done"
  /\ theta = Fin(2)
  /\ deltas = <<Fin(4), Fin(1)>>
  /\ Len(echoes) = 2
  /\ echoes[1] # echoes[2]

\* C4: the inverse of U(theta) applies the gates of U in reversed order with
\* negated angles, its matrix is the conjugate transpose of U's, and U
\* followed by its inverse is the identity.
C4_InverseIsConjugateTranspose ==
  Called =>
    /\ frame.U = ForwardGates(theta)
    /\ frame.U_dagger = InverseGates(theta)
    /\ IsFinite(theta) =>
         /\ from_instruction(<<frame.U, frame.U_dagger>>) =
              [nan |-> FALSE, e |-> 4, v |-> <<ZScale(16, ZOne), ZZero>>]
         /\ InverseNet[theta] = ConjTranspose(ForwardNet[theta])
         /\ MatMul(InverseNet[theta], ForwardNet[theta]) =
              [e |-> 4, m |-> << <<ZScale(16, ZOne), ZZero>>,
                                 <<ZZero, ZScale(16, ZOne)>> >>]

C4_Witness ==
  /\ Called
  /\ theta = Fin(2)
  /\ frame.U_dagger = <<Gate("rx", Fin(-1)), Gate("rz", Fin(-1)), Gate("rx", Fin(-2))>>
  /\ ForwardNet[theta] # Identity

\* C5: a non-finite angle is rejected: no amplitude is ever returned for a
\* theta or delta that is NaN or infinite.
C5_NonFiniteRejected ==
  \A i \in 1..Len(echoes) : IsFinite(theta) /\ IsFinite(deltas[i])

\* C6: every value echo_amplitude returns lies in [0, 1].
C6_AmplitudeInUnitInterval ==
  \A i \in 1..Len(echoes) : InUnitInterval(echoes[i])

\* The same for finite angles only.
FiniteAmplitudeInUnitInterval ==
  \A i \in 1..Len(echoes) :
    (IsFinite(theta) /\ IsFinite(deltas[i])) => InUnitInterval(echoes[i])

C8_NoSilentCorruption ==
  /\ \A p \in 1..Len(plots) :
       /\ plots[p].x = deltas
       /\ Len(plots[p].y) = Len(deltas)
       /\ \A i \in 1..Len(deltas) :
            /\ ~WillRaise(NoLocals, domainErrors, theta, deltas[i])
            /\ plots[p].y[i] = Fresh[theta, deltas[i]].amp
  /\ pc = "aborted" =>
       /\ plots = <<>>
       /\ Len(echoes) < Len(deltas)
       /\ \A i \in 1..Len(echoes) : echoes[i] = Fresh[theta, deltas[i]].amp

C8_Witness ==
  /\ pc = "aborted"
  /\ theta = Fin(2)
  /\ deltas = <<Fin(1), Inf>>
  /\ Len(echoes) = 1
  /\ plots = <<>>

\* C10: the plot is drawn at most once, only after the whole sweep, with all
\* the deltas and as many amplitudes; a partial or failed sweep draws nothing.
C10_PlotOnceAfterSweep ==
  /\ Len(plots) <= 1
  /\ (Len(plots) = 1) <=> (pc = "done")
  /\ \A p \in 1..Len(plots) :
       /\ plots[p].x = deltas
       /\ Len(plots[p].y) = Len(plots[p].x)
       /\ plots[p].y = echoes
  /\ (Len(echoes) < Len(deltas) \/ pc = "aborted") => plots = <<>>

C10_Witness ==
  /\ pc = "done"
  /\ Len(deltas) = MaxLen
  /\ Len(plots) = 1
  /\ Len(plots[1].y) = MaxLen

\* C9: operators are not altered once built: after a call U is still the
\* forward circuit as constructed, V the perturbation, and the first block
\* of the echo circuit equals U.
C9_OperatorsImmutable ==
  Called =>
    /\ frame.U = ForwardGates(theta)
    /\ frame.V = <<Gate("rz", LastDelta)>>
    /\ frame.qc[1] = frame.U
    /\ frame.qc[2] = frame.V

C9_Witness ==
  /\ Called
  /\ theta = Fin(2)
  /\ frame.U = <<Gate("rx", Fin(2)), Gate("rz", Fin(1)), Gate("rx", Fin(1))>>
  /\ frame.U_dagger # frame.U
  /\ frame.qc[1] = frame.U

====
